---- MODULE Spec2Model ----
(***************************************************************************)
(* A model of simpleauth/handler.py: the SimpleAuthHandler mixin.          *)
(*                                                                         *)
(* One handler invocation (_simple_auth or _auth_callback) is one action.  *)
(* The session store is the only state that survives an invocation; the   *)
(* variable `last` records what the latest invocation was given and what   *)
(* it did (the calls it made, in order), `issued` and `reqIssued` record   *)
(* the CSRF tokens and OAuth1 request tokens stored so far.                *)
(*                                                                         *)
(* Python values: None is the string "None"; a Python string that the     *)
(* code only tests for truth is a TLA+ string; a string the code takes    *)
(* apart (CSRF tokens) is a sequence of character codes; an optional      *)
(* value (a dict entry that may be absent) is a sequence of length 0 or 1. *)
(***************************************************************************)
EXTENDS Integers, Sequences, FiniteSets, TLC

VARIABLES
  session,    \* the session store: the entries 'oauth2_state' and 'req_token'
  now,        \* long(time.time())
  ticks,      \* how often the clock has advanced
  last,       \* the latest invocation: its inputs and what it did
  issued,     \* the CSRF tokens stored by _oauth2_init so far, with their times
  reqIssued,  \* the request tokens stored by _oauth1_init so far
  nCalls,     \* invocations so far
  csrfOn,     \* the class attribute OAUTH2_CSRF_STATE
  tally       \* how many OAuth2 inits redirected, how many OAuth2 callbacks
              \* got as far as the token exchange

vars == <<session, now, ticks, last, issued, reqIssued, nCalls, csrfOn, tally>>

(***************************************************************************)
(* Bounds of the model.                                                    *)
(***************************************************************************)
\* length of the random secret of a CSRF token (30 in the code, line 498)
SecretLen == 1
\* handler invocations per session
MaxCalls == 3
\* how often the clock advances
MaxTicks == 1

(***************************************************************************)
(* Class attributes (handler.py lines 98-103).                             *)
(***************************************************************************)
OAUTH2_CSRF_TOKEN_TIMEOUT == 3600
\* ':' as a character code
OAUTH2_CSRF_DELIMITER == 58

None == "None"

\* Python truth of a string-or-None value
Truthy(x) == x # None /\ x # ""

(***************************************************************************)
(* Strings as sequences of character codes.                                *)
(***************************************************************************)
RECURSIVE Str(_)
\* str(n) for an integer n
Str(n) ==
  IF n < 0 THEN <<45>> \o Str(0 - n)
  ELSE IF n < 10 THEN <<48 + n>>
  ELSE Str(n \div 10) \o <<48 + (n % 10)>>

IsSpace(c) == c = 32 \/ (c >= 9 /\ c <= 13)
IsDigit(c) == c >= 48 /\ c <= 57

RECURSIVE LStrip(_)
LStrip(s) == IF s # <<>> /\ IsSpace(Head(s)) THEN LStrip(Tail(s)) ELSE s

RECURSIVE RStrip(_)
RStrip(s) ==
  IF s # <<>> /\ IsSpace(s[Len(s)]) THEN RStrip(SubSeq(s, 1, Len(s) - 1)) ELSE s

RECURSIVE DigitsValue(_)
DigitsValue(s) ==
  IF s = <<>> THEN 0 ELSE 10 * DigitsValue(SubSeq(s, 1, Len(s) - 1)) + (s[Len(s)] - 48)

\* long(s), base 10: surrounding whitespace, an optional sign, one or more
\* digits, an optional trailing L.  ok = FALSE is ValueError.
LongParse(s) ==
  LET t == RStrip(LStrip(s))
      neg == t # <<>> /\ t[1] = 45
      u == IF t # <<>> /\ (t[1] = 45 \/ t[1] = 43) THEN Tail(t) ELSE t
      d == IF u # <<>> /\ (u[Len(u)] = 76 \/ u[Len(u)] = 108)
           THEN SubSeq(u, 1, Len(u) - 1) ELSE u
  IN IF d # <<>> /\ \A i \in 1..Len(d) : IsDigit(d[i])
     THEN [ok |-> TRUE, val |-> IF neg THEN 0 - DigitsValue(d) ELSE DigitsValue(d)]
     ELSE [ok |-> FALSE, val |-> 0]

\* s.rsplit(d, 1): split at the last occurrence of d, or <<s>> when there is none
RSplit(s, d) ==
  LET idx == {i \in 1..Len(s) : s[i] = d}
  IN IF idx = {} THEN <<s>>
     ELSE LET k == CHOOSE i \in idx : \A j \in idx : j <= i
          IN <<SubSeq(s, 1, k - 1), SubSeq(s, k + 1, Len(s))>>

(***************************************************************************)
(* URL-safe base64.  A character of an encoded string is its index in the  *)
(* alphabet (0..63), B64Pad for '=', B64Other for an ASCII character       *)
(* outside the alphabet and NonAscii for a character above 0x7f.           *)
(***************************************************************************)
B64Pad == 64
B64Other == 65
NonAscii == 66

\* the 4 characters encoding the 1..3 bytes of one group
B64Group(g) ==
  LET b1 == g[1]
      b2 == IF Len(g) >= 2 THEN g[2] ELSE 0
      b3 == IF Len(g) >= 3 THEN g[3] ELSE 0
      v == b1 * 65536 + b2 * 256 + b3
  IN << v \div 262144,
        (v \div 4096) % 64,
        IF Len(g) >= 2 THEN (v \div 64) % 64 ELSE B64Pad,
        IF Len(g) >= 3 THEN v % 64 ELSE B64Pad >>

RECURSIVE B64Encode(_)
\* base64.urlsafe_b64encode(bytes)
B64Encode(bytes) ==
  IF bytes = <<>> THEN <<>>
  ELSE IF Len(bytes) <= 3 THEN B64Group(bytes)
  ELSE B64Group(SubSeq(bytes, 1, 3)) \o B64Encode(SubSeq(bytes, 4, Len(bytes)))

\* binascii_find_valid(s, slen, 1): the second valid character from position i on
B64NextValid(s, i) ==
  LET valid == {j \in i..Len(s) : s[j] <= B64Pad}
      first == CHOOSE j \in valid : \A k \in valid : j <= k
      rest == valid \ {first}
  IN IF valid = {} \/ rest = {} THEN 0 - 1
     ELSE s[CHOOSE j \in rest : \A k \in rest : j <= k]

RECURSIVE B64Scan(_, _, _, _, _, _)
\* the loop of binascii.a2b_base64: ok = FALSE is "Incorrect padding"
B64Scan(s, i, quad, leftchar, leftbits, out) ==
  IF i > Len(s) THEN [ok |-> leftbits = 0, bytes |-> out]
  ELSE LET c == s[i] IN
    IF c > B64Pad THEN B64Scan(s, i + 1, quad, leftchar, leftbits, out)
    ELSE IF c = B64Pad THEN
      IF quad < 2 \/ (quad = 2 /\ B64NextValid(s, i) # B64Pad)
      THEN B64Scan(s, i + 1, quad, leftchar, leftbits, out)
      ELSE [ok |-> TRUE, bytes |-> out]
    ELSE LET lc == leftchar * 64 + c
             lb == leftbits + 6
         IN IF lb >= 8
            THEN B64Scan(s, i + 1, (quad + 1) % 4, lc % (2 ^ (lb - 8)), lb - 8,
                         Append(out, (lc \div (2 ^ (lb - 8))) % 256))
            ELSE B64Scan(s, i + 1, (quad + 1) % 4, lc, lb, out)

\* base64.urlsafe_b64decode(s.encode('ascii')): err is "" or the exception raised
B64Decode(s) ==
  IF \E i \in 1..Len(s) : s[i] = NonAscii
  THEN [err |-> "UnicodeEncodeError", bytes |-> <<>>]
  ELSE LET r == B64Scan(s, 1, 0, 0, 0, <<>>)
       IN IF r.ok THEN [err |-> "", bytes |-> r.bytes]
          ELSE [err |-> "TypeError", bytes |-> <<>>]

(***************************************************************************)
(* CSRF token codec (handler.py lines 491-527).                            *)
(***************************************************************************)
\* `_time or long(time.time())`: _time is an optional integer, <<>> for None
TimeOrClock(_time, clock) ==
  IF _time # <<>> /\ _time[1] # 0 THEN _time[1] ELSE clock

\* _generate_csrf_token(_time), with the random secret drawn and the clock read
GenerateCsrfToken(_time, secret, clock) ==
  B64Encode(secret \o <<OAUTH2_CSRF_DELIMITER>> \o Str(TimeOrClock(_time, clock)))

\* mutant: the comparison alone, neither decoding nor timeout
ValidateCsrfToken_EqualOnly(expected, actual, clock) == expected = actual

\* mutant: no token in the session and no `state` in the request passes
ValidateCsrfToken_EmptyPasses(expected, actual, clock) ==
  IF expected # actual THEN FALSE
  ELSE IF expected = <<>> THEN TRUE
  ELSE LET dec == B64Decode(expected)
           parts == RSplit(dec.bytes, OAUTH2_CSRF_DELIMITER)
       IN /\ dec.err = ""
          /\ Len(parts) = 2
          /\ LongParse(parts[2]).ok
          /\ parts[1] # <<>>
          /\ ~(clock - LongParse(parts[2]).val > OAUTH2_CSRF_TOKEN_TIMEOUT)

\* _validate_csrf_token(expected, actual), with the clock read
ValidateCsrfToken(expected, actual, clock) ==
  IF expected # actual THEN FALSE
  ELSE LET dec == B64Decode(expected)
           parts == RSplit(dec.bytes, OAUTH2_CSRF_DELIMITER)
       IN IF dec.err # "" THEN FALSE
          ELSE IF Len(parts) # 2 THEN FALSE
          ELSE LET token_time == LongParse(parts[2])
               IN IF ~token_time.ok THEN FALSE
                  ELSE IF parts[1] = <<>> THEN FALSE
                  ELSE ~(clock - token_time.val > OAUTH2_CSRF_TOKEN_TIMEOUT)

\* mutant: the except clause names TypeError alone
CsrfExceptCatches_TypeErrorOnly(exc) == exc = "TypeError"

\* except (TypeError, ValueError, UnicodeDecodeError) (line 518); both
\* UnicodeEncodeError and UnicodeDecodeError are subclasses of ValueError
CsrfExceptCatches(exc) ==
  exc \in {"TypeError", "ValueError", "UnicodeDecodeError", "UnicodeEncodeError"}

\* the exception raised inside the try block (lines 513-517), "" if none:
\* by encode or b64decode, by unpacking the result of rsplit, by long()
CsrfTryRaises(expected) ==
  LET dec == B64Decode(expected)
      parts == RSplit(dec.bytes, OAUTH2_CSRF_DELIMITER)
  IN IF dec.err # "" THEN dec.err
     ELSE IF Len(parts) # 2 THEN "ValueError"
     ELSE IF ~LongParse(parts[2]).ok THEN "ValueError"
     ELSE ""

\* the exception that leaves _validate_csrf_token(expected, actual), "" if
\* it returns
ValidateCsrfTokenRaises(expected, actual) ==
  IF expected # actual THEN ""
  ELSE LET exc == CsrfTryRaises(expected)
       IN IF exc # "" /\ ~CsrfExceptCatches(exc) THEN exc ELSE ""

(***************************************************************************)
(* Provider registry and parsers (handler.py lines 62-90).                 *)
(* A registry entry is <<family, cfg[1], cfg[2]>>; the URL pair of an      *)
(* OAuth1 provider is a dict, modelled as a set of <<key, value>> pairs.   *)
(***************************************************************************)
DictHas(d, k) == \E p \in d : p[1] = k
DictGet(d, k) == IF DictHas(d, k) THEN (CHOOSE p \in d : p[1] = k)[2] ELSE None

PROVIDERS ==
  [ google |-> <<"oauth2", "https://accounts.google.com/o/oauth2/auth?{0}",
                 "https://accounts.google.com/o/oauth2/token">>,
    windows_live |-> <<"oauth2", "https://oauth.live.com/authorize?{0}",
                       "https://oauth.live.com/token">>,
    facebook |-> <<"oauth2", "https://www.facebook.com/dialog/oauth?{0}",
                   "https://graph.facebook.com/oauth/access_token">>,
    linkedin |-> <<"oauth1",
                   { <<"request", "https://api.linkedin.com/uas/oauth/requestToken">>,
                     <<"auth", "https://www.linkedin.com/uas/oauth/authenticate?{0}">> },
                   "https://api.linkedin.com/uas/oauth/accessToken">>,
    twitter |-> <<"oauth1",
                  { <<"request", "https://api.twitter.com/oauth/request_token">>,
                    <<"auth", "https://api.twitter.com/oauth/authenticate?{0}">> },
                  "https://api.twitter.com/oauth/access_token">>,
    openid |-> <<"openid", None>> ]

\* PROVIDERS is a class attribute: a handler subclass may add entries.  The
\* handler modelled here adds one whose auth family has no _<family>_init or
\* _<family>_callback method.
Registry == [n \in DOMAIN PROVIDERS \cup {"saml_idp"} |->
               IF n \in DOMAIN PROVIDERS THEN PROVIDERS[n] ELSE <<"saml", None>>]

TOKEN_RESPONSE_PARSERS ==
  [ google |-> "_json_parser", windows_live |-> "_json_parser",
    facebook |-> "_query_string_parser", linkedin |-> "_query_string_parser",
    twitter |-> "_query_string_parser" ]

\* mutant: an unregistered name falls back to the OpenID entry
ProviderCfg_DefaultOpenid(provider) ==
  IF provider \in DOMAIN Registry THEN Registry[provider] ELSE <<"openid", None>>

\* self.PROVIDERS.get(provider, (None,))
ProviderCfg(provider) ==
  IF provider \in DOMAIN Registry THEN Registry[provider] ELSE <<None>>

\* the _<family>_init and _<family>_callback methods the class defines
FlowMethods == {"oauth2", "oauth1", "openid"} \X {"init", "callback"}

\* hasattr(self, '_%s_init' % cfg[0]) and hasattr(self, '_%s_callback' % cfg[0])
HasFlowMethod(family, op) == <<family, op>> \in FlowMethods

(***************************************************************************)
(* Response decoders (lines 479-489).  A response body is [fmt, fields]:   *)
(* fmt says what the text is ("json", "qs", or "text" for anything else),  *)
(* fields the flat mapping it encodes, a set of <<key, value>> pairs.      *)
(***************************************************************************)
\* json.loads(body): ValueError unless the body is JSON
JsonParser(body) ==
  IF body.fmt = "json" THEN [err |-> "", val |-> body.fields]
  ELSE [err |-> "ValueError", val |-> {}]

\* dict(urlparse.parse_qsl(body)): pieces without '=' are dropped, never an error
QueryStringParser(body) ==
  IF body.fmt = "qs" THEN [err |-> "", val |-> body.fields]
  ELSE [err |-> "", val |-> {}]

\* getattr(self, self.TOKEN_RESPONSE_PARSERS[provider])(content)
ParseTokenResponse(provider, body) ==
  IF TOKEN_RESPONSE_PARSERS[provider] = "_json_parser"
  THEN JsonParser(body) ELSE QueryStringParser(body)

(***************************************************************************)
(* What a flow operation did.  session: the session store it leaves;       *)
(* trace: the calls it made on its collaborators, in order; raised: "" or  *)
(* the message of the exception it raised; ret: the (user_data, auth_info) *)
(* pair it returned; redirect: the parameters of the redirect it issued;   *)
(* exch: what the access-token request was made with.                      *)
(***************************************************************************)
Outcome(s, trace, raised, ret, redirect, exch) ==
  [session |-> s, trace |-> trace, raised |-> raised, ret |-> ret,
   redirect |-> redirect, exch |-> exch]

Raise(s, trace, msg) == Outcome(s, trace, msg, <<>>, <<>>, <<>>)

\* self._provider_not_supported(provider) called by a flow: the host's
\* callback returns or raises
FlowNotSupported(s, trace, env) ==
  Outcome(s, Append(trace, "provider_not_supported"),
          IF env.hostFail = "provider_not_supported" THEN "host callback raised" ELSE "",
          <<>>, <<>>, <<>>)

\* self.redirect(target_url) at the end of an init operation
Redirect(s, trace, params) ==
  Outcome(s, Append(trace, "redirect"), "", <<>>, <<params>>, <<>>)

\* the fields of a profile fetcher's auth_info[...] subscripts (lines 386-457)
FetcherNeeds(provider) ==
  IF provider \in {"google", "windows_live", "facebook"} THEN {"access_token"}
  ELSE {"oauth_token", "oauth_token_secret"}

\* mutant: a failed profile request is swallowed
FetchUserInfo_IgnoresFailure(s, trace, provider, auth_info, env, exch) ==
  IF \E k \in FetcherNeeds(provider) : ~DictHas(auth_info, k)
  THEN Outcome(s, trace, "KeyError", <<>>, <<>>, exch)
  ELSE Outcome(s, Append(trace, "profile_fetch"), "",
               << <<[id |-> "u1", provider |-> provider], auth_info>> >>, <<>>, exch)

\* _get_<provider>_user_info(auth_info, key, secret): KeyError on a missing
\* token field, otherwise one request to the provider's profile endpoint
FetchUserInfo(s, trace, provider, auth_info, env, exch) ==
  IF \E k \in FetcherNeeds(provider) : ~DictHas(auth_info, k)
  THEN Outcome(s, trace, "KeyError", <<>>, <<>>, exch)
  ELSE IF env.fetch # "ok"
  THEN Outcome(s, Append(trace, "profile_fetch"), "profile fetch failed", <<>>, <<>>, exch)
  ELSE Outcome(s, Append(trace, "profile_fetch"), "",
               << <<[id |-> "u1", provider |-> provider], auth_info>> >>, <<>>, exch)

(***************************************************************************)
(* OAuth 2.0 (lines 179-250).                                              *)
(***************************************************************************)
\* mutant: `or` for `and`, as in _oauth1_init
Oauth2Valid_Or(key, secret, auth_url, callback_url) ==
  Truthy(key) \/ Truthy(secret) \/ Truthy(auth_url) \/ Truthy(callback_url)

\* `key and secret and auth_url and callback_url` (line 188)
Oauth2Valid(key, secret, auth_url, callback_url) ==
  Truthy(key) /\ Truthy(secret) /\ Truthy(auth_url) /\ Truthy(callback_url)

\* mutant: session.setdefault, an earlier token is kept
StoreCsrfState_SetDefault(s, state) ==
  IF s.oauth2_state = <<>> THEN [s EXCEPT !.oauth2_state = <<state>>] ELSE s

\* self.session[self.OAUTH2_CSRF_SESSION_PARAM] = state (line 206)
StoreCsrfState(s, state) == [s EXCEPT !.oauth2_state = <<state>>]

\* mutant: session.get instead of session.pop
PopCsrfState_Get(s) == s

\* self.session.pop(self.OAUTH2_CSRF_SESSION_PARAM, '') (line 224): the store
\* it leaves
PopCsrfState(s) == [s EXCEPT !.oauth2_state = <<>>]

\* mutant: the token is stored but not sent as `state`
Oauth2Params_NoState(key, callback_url, scope, csrf, state, auth_url) ==
  [response_type |-> "code", client_id |-> key, redirect_uri |-> callback_url,
   scope |-> IF Truthy(scope) THEN <<scope>> ELSE <<>>, state |-> <<>>,
   url |-> auth_url]

\* the params dict of lines 194-205 and the URL template it is formatted into
Oauth2Params(key, callback_url, scope, csrf, state, auth_url) ==
  [response_type |-> "code", client_id |-> key, redirect_uri |-> callback_url,
   scope |-> IF Truthy(scope) THEN <<scope>> ELSE <<>>,
   state |-> IF csrf THEN <<state>> ELSE <<>>,
   url |-> auth_url]

\* _oauth2_init(provider, auth_url)
Oauth2Init(s, provider, auth_url, env, csrf, clock) ==
  LET t1 == <<"consumer_info">>
      t2 == Append(t1, "callback_uri")
  IN IF Len(env.info) # 3 THEN Raise(s, t1, "ValueError: unpack")
     ELSE LET key == env.info[1]
              secret == env.info[2]
              scope == env.info[3]
              callback_url == env.callback_url
              _valid == Oauth2Valid(key, secret, auth_url, callback_url)
              state == GenerateCsrfToken(<<>>, env.secret, clock)
              params == Oauth2Params(key, callback_url, scope, csrf, state, auth_url)
              s2 == IF csrf THEN StoreCsrfState(s, state) ELSE s
              t3 == IF csrf THEN t2 \o <<"generate_csrf_token", "session_set">> ELSE t2
          IN IF ~_valid THEN FlowNotSupported(s, t2, env)
             ELSE Redirect(s2, t3, params)

\* mutant: the `error` parameter is not looked at
ErrorGiven_Never(error) == FALSE

\* `if error` (line 220)
ErrorGiven(error) == Truthy(error)

\* _oauth2_callback(provider, access_token_url); _validate_csrf_token
\* returns for every pair it is given (ValidateCsrfTokenRaises is "" for all
\* of them), so the CSRF step either raises "State parameter is not valid" or
\* goes on
Oauth2Callback(s, provider, access_token_url, env, csrf, clock) ==
  LET code == env.code
      error == env.error
      t1 == <<"callback_uri", "consumer_info">>
      _expected == IF s.oauth2_state = <<>> THEN <<>> ELSE s.oauth2_state[1]
      _actual == env.state
      s2 == IF csrf THEN PopCsrfState(s) ELSE s
      t2 == IF csrf THEN Append(t1, "session_pop") ELSE t1
      t3 == Append(t2, "token_exchange")
      exch == <<[code |-> code, client_id |-> env.info[1],
                 client_secret |-> env.info[2],
                 redirect_uri |-> env.callback_url,
                 grant_type |-> "authorization_code", url |-> access_token_url]>>
      parsed == ParseTokenResponse(provider, env.resp.body)
  IN IF Len(env.info) # 3 THEN Raise(s, t1, "ValueError: unpack")
     ELSE IF ErrorGiven(error) THEN Raise(s, t1, error)
     ELSE IF csrf /\ ~ValidateCsrfToken(_expected, _actual, clock)
     THEN Raise(s2, t2, "State parameter is not valid")
     ELSE IF env.resp.status = 0
     THEN Outcome(s2, t3, "DownloadError", <<>>, <<>>, exch)
     ELSE IF parsed.err # ""
     THEN Outcome(s2, t3, parsed.err, <<>>, <<>>, exch)
     ELSE FetchUserInfo(s2, t3, provider, parsed.val, env, exch)

(***************************************************************************)
(* OAuth 1.0 (lines 252-312).                                              *)
(***************************************************************************)
\* oauth1.Consumer(key, secret) and oauth1.Token(key, secret) refuse None
SignerRefuses(key, secret) == key = None \/ secret = None

\* mutant: session.get instead of session.pop
PopReqToken_Get(s) == s

\* self.session.pop('req_token', None) (line 291): the store it leaves
PopReqToken(s) == [s EXCEPT !.req_token = <<>>]

\* mutant: the status of the answer is not looked at
RequestTokenRefused_Never(status) == FALSE

\* `if resp.status != 200` (line 269)
RequestTokenRefused(status) == status # 200

\* _oauth1_init(provider, auth_urls)
Oauth1Init(s, provider, auth_urls, env) ==
  LET t1 == <<"consumer_info">>
      t2 == Append(t1, "callback_uri")
      t3 == Append(t2, "request_token_fetch")
      key == env.info[1]
      secret == env.info[2]
      callback_url == env.callback_url
      token_request_url == DictGet(auth_urls, "request")
      auth_url == DictGet(auth_urls, "auth")
      _valid == Truthy(key) \/ Truthy(secret) \/ Truthy(token_request_url)
                \/ Truthy(auth_url) \/ Truthy(callback_url)
                \/ provider \in DOMAIN TOKEN_RESPONSE_PARSERS
      parsed == ParseTokenResponse(provider, env.resp.body)
      request_token == parsed.val
      params == [oauth_token |-> DictGet(request_token, "oauth_token"),
                 oauth_callback |-> callback_url, url |-> auth_url]
  IN IF Len(env.info) # 2 THEN Raise(s, t1, "ValueError: unpack")
     ELSE IF provider \notin DOMAIN TOKEN_RESPONSE_PARSERS THEN Raise(s, t2, "KeyError")
     ELSE IF ~_valid THEN Raise(s, t2, "Provider is not supported")
     ELSE IF SignerRefuses(key, secret) THEN Raise(s, t2, "ValueError: key and secret")
     ELSE IF ~DictHas(auth_urls, "request") THEN Raise(s, t2, "KeyError")
     ELSE IF env.resp.status = 0 THEN Raise(s, t3, "DownloadError")
     ELSE IF RequestTokenRefused(env.resp.status)
     THEN Raise(s, t3, "Could not fetch a valid response")
     ELSE IF parsed.err # "" THEN Raise(s, t3, parsed.err)
     ELSE IF ~Truthy(DictGet(request_token, "oauth_token"))
     THEN Raise(s, t3, "Couldn't get a valid token")
     ELSE IF ~DictHas(auth_urls, "auth") THEN Raise(s, t3, "KeyError")
     ELSE Redirect([s EXCEPT !.req_token = <<request_token>>],
                   Append(t3, "session_set"), params)

\* mutant: the verifier is not looked at
VerifierMissing_Never(verifier) == FALSE

\* `if not verifier` (line 298)
VerifierMissing(verifier) == ~Truthy(verifier)

\* _oauth1_callback(provider, access_token_url)
Oauth1Callback(s, provider, access_token_url, env) ==
  LET s2 == PopReqToken(s)
      t1 == <<"session_pop", "consumer_info">>
      t2 == Append(t1, "token_exchange")
      verifier == env.verifier
      rt == s.req_token[1]
      exch == <<[oauth_token |-> DictGet(rt, "oauth_token"),
                 oauth_token_secret |-> DictGet(rt, "oauth_token_secret"),
                 verifier |-> verifier, url |-> access_token_url]>>
      parsed == ParseTokenResponse(provider, env.resp.body)
  IN IF Len(env.info) # 2 THEN Raise(s2, t1, "ValueError: unpack")
     ELSE IF s.req_token = <<>> \/ s.req_token[1] = {}
     THEN Raise(s2, t1, "Couldn't find request token")
     ELSE IF VerifierMissing(verifier)
     THEN Raise(s2, t1, "No OAuth verifier was provided")
     ELSE IF ~DictHas(rt, "oauth_token") \/ ~DictHas(rt, "oauth_token_secret")
     THEN Raise(s2, t1, "KeyError")
     ELSE IF SignerRefuses(DictGet(rt, "oauth_token"), DictGet(rt, "oauth_token_secret"))
             \/ SignerRefuses(env.info[1], env.info[2])
     THEN Raise(s2, t1, "ValueError: key and secret")
     ELSE IF env.resp.status = 0 THEN Outcome(s2, t2, "DownloadError", <<>>, <<>>, exch)
     ELSE IF parsed.err # "" THEN Outcome(s2, t2, parsed.err, <<>>, <<>>, exch)
     ELSE FetchUserInfo(s2, t2, provider, parsed.val, env, exch)

(***************************************************************************)
(* OpenID (lines 314-348).                                                 *)
(***************************************************************************)
\* _openid_init(provider, identity)
OpenidInit(s, provider, identity, env) ==
  LET identity_url == IF Truthy(identity) THEN identity ELSE env.identity_url
      callback_url == env.callback_url
      t1 == <<"callback_uri">>
  IN IF Truthy(identity_url) /\ Truthy(callback_url)
     THEN Redirect(s, Append(t1, "create_login_url"),
                   [dest_url |-> callback_url, federated_identity |-> identity_url])
     ELSE FlowNotSupported(s, t1, env)

\* the users the identity collaborator may report, by what their methods
\* federated_identity(), nickname(), email() and federated_provider() answer;
\* "none" stands for no current user
UserAttrs ==
  [ nofed |-> [federated_identity |-> None, nickname |-> "nick0", email |-> "mail0",
               federated_provider |-> None],
    fed |-> [federated_identity |-> "fid1", nickname |-> "nick1", email |-> "mail1",
             federated_provider |-> "fprov1"],
    fed2 |-> [federated_identity |-> "fid2", nickname |-> "nick2", email |-> "mail2",
              federated_provider |-> "fprov2"] ]

\* mutant: a user is enough, federated or not
OpenidFailed_NoUserOnly(user) == user = "none"

\* `if not user or not user.federated_identity()` (line 339)
OpenidFailed(user) ==
  user = "none" \/ ~Truthy(UserAttrs[user].federated_identity)

\* _openid_callback(provider, _identity); env.user is what
\* users.get_current_user() answers
OpenidCallback(s, provider, env) ==
  LET t1 == <<"get_current_user">>
      user == UserAttrs[env.user]
  IN IF OpenidFailed(env.user)
     THEN Raise(s, t1, "OpenID Authentication failed")
     ELSE Outcome(s, t1, "",
                  << <<[id |-> user.federated_identity, nickname |-> user.nickname,
                        email |-> user.email],
                       {<<"provider", user.federated_provider>>}>> >>, <<>>, <<>>)

(***************************************************************************)
(* Dispatchers (lines 105-160).  What an invocation did: the flow's        *)
(* outcome extended with the dispatcher's own calls; escaped: an exception *)
(* left the dispatcher; signin: the arguments _on_signin was called with.  *)
(***************************************************************************)
Done(r, trace, error_msg, escaped, signin) ==
  [session |-> r.session, trace |-> trace, error_msg |-> error_msg,
   escaped |-> escaped, ret |-> r.ret, redirect |-> r.redirect, exch |-> r.exch,
   signin |-> signin]

\* the else branch: self._provider_not_supported(provider)
NotSupported(s, env) ==
  Done(Raise(s, <<>>, ""), <<"provider_not_supported">>, "",
       env.hostFail = "provider_not_supported", <<>>)

\* mutant: the except branch logs the error and calls nothing
AuthError_Silent(r, trace, env, signin) ==
  Done(r, trace, r.raised, FALSE, signin)

\* the except branch: self._auth_error(provider, msg=error_msg)
AuthError(r, trace, env, signin) ==
  Done(r, Append(trace, "auth_error"), r.raised, env.hostFail = "auth_error", signin)

\* getattr(self, '_%s_init' % cfg[0])(provider, cfg[1])
InitFlow(s, provider, cfg, env, csrf, clock) ==
  IF cfg[1] = "oauth2" THEN Oauth2Init(s, provider, cfg[2], env, csrf, clock)
  ELSE IF cfg[1] = "oauth1" THEN Oauth1Init(s, provider, cfg[2], env)
  ELSE OpenidInit(s, provider, cfg[2], env)

\* getattr(self, '_%s_callback' % cfg[0])(provider, *cfg[-1:])
CallbackFlow(s, provider, cfg, env, csrf, clock) ==
  IF cfg[1] = "oauth2" THEN Oauth2Callback(s, provider, cfg[Len(cfg)], env, csrf, clock)
  ELSE IF cfg[1] = "oauth1" THEN Oauth1Callback(s, provider, cfg[Len(cfg)], env)
  ELSE OpenidCallback(s, provider, env)

\* _simple_auth(provider)
SimpleAuth(s, provider, env, csrf, clock) ==
  LET cfg == ProviderCfg(provider)
  IN IF HasFlowMethod(cfg[1], "init")
     THEN LET r == InitFlow(s, provider, cfg, env, csrf, clock)
          IN IF r.raised # "" THEN AuthError(r, r.trace, env, <<>>)
             ELSE Done(r, r.trace, "", FALSE, <<>>)
     ELSE NotSupported(s, env)

\* mutant: the provider name is not passed on
OnSigninArgs_NoProvider(ret, provider) ==
  <<[user_data |-> ret[1], auth_info |-> ret[2], provider |-> None]>>

\* self._on_signin(user_data, auth_info, provider) (lines 150-152): the
\* arguments, from the pair the callback operation returned
OnSigninArgs(ret, provider) ==
  <<[user_data |-> ret[1], auth_info |-> ret[2], provider |-> provider]>>

\* _auth_callback(provider)
AuthCallback(s, provider, env, csrf, clock) ==
  LET cfg == ProviderCfg(provider)
  IN IF HasFlowMethod(cfg[1], "callback")
     THEN LET r == CallbackFlow(s, provider, cfg, env, csrf, clock)
              signin == OnSigninArgs(r.ret[1], provider)
              called == Append(r.trace, "on_signin")
          IN IF r.raised # "" THEN AuthError(r, r.trace, env, <<>>)
             ELSE IF env.hostFail = "on_signin"
             THEN AuthError([r EXCEPT !.raised = "host callback raised"], called, env,
                            signin)
             ELSE Done(r, called, "", FALSE, signin)
     ELSE NotSupported(s, env)

(***************************************************************************)
(* The inputs of an invocation: what the host's methods, the request and   *)
(* the external collaborators answer.  Inputs an operation never reads     *)
(* stay at their default.                                                  *)
(***************************************************************************)
SecretChars == {97, OAUTH2_CSRF_DELIMITER}
Secrets == [1..SecretLen -> SecretChars]
ForgedSecret == [i \in 1..SecretLen |-> 97]
\* the secrets drawn within a session: one without, one made of delimiters
FlowSecrets == {[i \in 1..SecretLen |-> c] : c \in SecretChars}

\* the provider names requested: registered ones of each family, one a
\* subclass registered without a flow, an unregistered one, and none at all
Names == {"google", "twitter", "openid", "saml_idp", "yahoo", None}

\* what _get_consumer_info_for may return: for OAuth 2.0 a 3-tuple, for
\* OAuth 1.0 a pair, with entries missing; the default is (None, None, None)
Infos2 == { <<"k", "s", "sc">>, <<"k", "s", None>>, <<None, "s", "sc">>,
            <<"k", None, "sc">>, <<None, None, None>>, <<"k", "s">> }
Infos1 == { <<"k", "s">>, <<None, "s">>, <<"k", None>>, <<None, None, None>> }

Body(fmt, fields) == [fmt |-> fmt, fields |-> fields]
Resp(status, body) == [status |-> status, body |-> body]
BodyText == Body("text", {})
BodyAccess2 == Body("json", {<<"access_token", "tok1">>})
BodyError2 == Body("json", {<<"error", "invalid_grant">>})
BodyRequestToken(rt, rts) ==
  Body("qs", {<<"oauth_token", rt>>, <<"oauth_token_secret", rts>>})
BodyAccess1 == BodyRequestToken("at1", "ats1")

\* the verifier the provider hands out with a request token
VerifierFor(rt) == IF rt = "rt1" THEN "v1" ELSE "v2"

DefaultEnv ==
  [info |-> <<"k", "s", "sc">>, callback_url |-> "cb", identity_url |-> None,
   code |-> None, error |-> None, verifier |-> None, state |-> <<>>,
   secret |-> ForgedSecret, resp |-> Resp(200, BodyText), fetch |-> "ok",
   user |-> "none", hostFail |-> "none"]

Range(f) == {f[i] : i \in DOMAIN f}

\* the `state` values a callback request may carry: none, a token issued in
\* this session, or a well-formed token made elsewhere
StateParams ==
  {<<>>, GenerateCsrfToken(<<>>, ForgedSecret, now)} \cup {x.token : x \in issued}

\* an answer of the token endpoint and of the profile endpoint after it; the
\* callbacks read the body of the answer, whatever its status
Answers(ok) ==
  { [resp |-> Resp(200, ok), fetch |-> "ok"], [resp |-> Resp(200, ok), fetch |-> "fail"],
    [resp |-> Resp(403, ok), fetch |-> "ok"],
    [resp |-> Resp(400, BodyError2), fetch |-> "ok"],
    [resp |-> Resp(500, BodyText), fetch |-> "ok"],
    [resp |-> Resp(0, BodyText), fetch |-> "ok"] }

RequestTokenAnswers ==
  { Resp(200, BodyRequestToken("rt1", "rts1")), Resp(200, BodyRequestToken("rt2", "rts2")),
    Resp(200, BodyText), Resp(500, BodyRequestToken("rt1", "rts1")), Resp(0, BodyText) }

\* for a name no flow handles: the host's provider_not_supported returns or raises
NoFlowEnvs ==
  {[DefaultEnv EXCEPT !.hostFail = h] : h \in {"none", "provider_not_supported"}}

InitEnvs(family) ==
  IF family = "oauth2" THEN
    {[DefaultEnv EXCEPT !.info = i, !.callback_url = c] :
       i \in Infos2, c \in {None, "cb"}}
    \cup {[DefaultEnv EXCEPT !.secret = x] : x \in IF csrfOn THEN FlowSecrets ELSE {}}
    \cup {[DefaultEnv EXCEPT !.info = <<None, "s", "sc">>,
                             !.hostFail = "provider_not_supported"],
          [DefaultEnv EXCEPT !.info = <<"k", "s">>, !.hostFail = "auth_error"]}
  ELSE IF family = "oauth1" THEN
    {[DefaultEnv EXCEPT !.info = i, !.callback_url = c,
                        !.resp = Resp(200, BodyRequestToken("rt1", "rts1"))] :
       i \in Infos1, c \in {None, "cb"}}
    \cup {[DefaultEnv EXCEPT !.info = <<"k", "s">>, !.resp = r] :
            r \in RequestTokenAnswers}
    \cup {[DefaultEnv EXCEPT !.info = <<"k", "s">>, !.hostFail = "auth_error"]}
  ELSE IF family = "openid" THEN
    {[DefaultEnv EXCEPT !.identity_url = u, !.callback_url = c] :
       u \in {None, "id"}, c \in {None, "cb"}}
    \cup {[DefaultEnv EXCEPT !.callback_url = None, !.hostFail = h] :
            h \in {"provider_not_supported", "auth_error"}}
  ELSE NoFlowEnvs

CallbackEnvs(family) ==
  IF family = "oauth2" THEN
    {[DefaultEnv EXCEPT !.code = "c", !.state = st, !.resp = a.resp, !.fetch = a.fetch] :
       st \in StateParams, a \in Answers(BodyAccess2)}
    \cup {[DefaultEnv EXCEPT !.state = st, !.resp = Resp(200, BodyAccess2)] :
            st \in StateParams}
    \cup {[DefaultEnv EXCEPT !.code = c, !.error = "access_denied", !.state = st,
                             !.resp = Resp(200, BodyAccess2)] :
            c \in {None, "c"}, st \in StateParams}
    \cup {[DefaultEnv EXCEPT !.code = "c", !.state = st,
                             !.resp = Resp(200, BodyAccess2), !.hostFail = h] :
            st \in StateParams \ {<<>>}, h \in {"on_signin"}}
    \cup {[DefaultEnv EXCEPT !.code = "c", !.info = <<"k", "s">>, !.hostFail = h] :
            h \in {"none", "auth_error"}}
  ELSE IF family = "oauth1" THEN
    {[DefaultEnv EXCEPT !.info = <<"k", "s">>, !.verifier = v, !.resp = a.resp,
                        !.fetch = a.fetch] :
       v \in {None, "v1", "v2"}, a \in Answers(BodyAccess1)}
    \cup {[DefaultEnv EXCEPT !.info = <<"k", "s">>, !.verifier = v,
                             !.resp = Resp(200, BodyAccess1), !.hostFail = "on_signin"] :
            v \in {"v1", "v2"}}
    \cup {[DefaultEnv EXCEPT !.info = <<None, None, None>>, !.verifier = "v1",
                             !.hostFail = h] : h \in {"none", "auth_error"}}
    \cup {[DefaultEnv EXCEPT !.info = <<"k", "s">>, !.verifier = "",
                             !.resp = Resp(200, BodyAccess1)]}
  ELSE IF family = "openid" THEN
    {[DefaultEnv EXCEPT !.user = u] : u \in {"none"} \cup DOMAIN UserAttrs}
    \cup {[DefaultEnv EXCEPT !.user = "fed", !.hostFail = "on_signin"],
          [DefaultEnv EXCEPT !.user = "none", !.hostFail = "auth_error"]}
  ELSE NoFlowEnvs

(***************************************************************************)
(* The state machine.                                                      *)
(***************************************************************************)
EmptySession == [oauth2_state |-> <<>>, req_token |-> <<>>]

Record(op, provider, env, d) ==
  [op |-> op, provider |-> provider, family |-> ProviderCfg(provider)[1],
   env |-> env, pre |-> session, clock |-> now, did |-> d]

Init ==
  /\ session = EmptySession
  /\ now = 1
  /\ ticks = 0
  /\ csrfOn \in BOOLEAN
  /\ issued = {}
  /\ reqIssued = {}
  /\ nCalls = 0
  /\ tally = [inits |-> 0, exchanges |-> 0]
  /\ last = [op |-> "none", provider |-> None, family |-> None, env |-> DefaultEnv,
             pre |-> EmptySession, clock |-> 1,
             did |-> Done(Raise(EmptySession, <<>>, ""), <<>>, "", FALSE, <<>>)]

\* the tokens an invocation stored in the session
Stored(family, d, key) ==
  IF \E i \in 1..Len(d.trace) : d.trace[i] = "session_set"
  THEN IF key = "oauth2_state" /\ family = "oauth2" THEN <<d.session.oauth2_state[1]>>
       ELSE IF key = "req_token" /\ family = "oauth1" THEN <<d.session.req_token[1]>>
       ELSE <<>>
  ELSE <<>>

\* a stored CSRF token with the time of the invocation that stored it
StoredAt(toks) == {[token |-> toks[i], at |-> now] : i \in 1..Len(toks)}

\* the call e is among the calls of d
Made(d, e) == \E i \in 1..Len(d.trace) : d.trace[i] = e

\* the tally after an invocation: one more init for an OAuth2 init that
\* reached self.redirect (line 211), one more exchange for an OAuth2 callback
\* that reached urlfetch.fetch (line 238)
Tally(op, family, d) ==
  [inits |-> tally.inits
       + (IF op = "init" /\ family = "oauth2" /\ Made(d, "redirect") THEN 1 ELSE 0),
   exchanges |-> tally.exchanges
       + (IF op = "callback" /\ family = "oauth2" /\ Made(d, "token_exchange")
          THEN 1 ELSE 0)]

Invoke(op, provider, env, d) ==
  /\ nCalls < MaxCalls
  /\ session' = d.session
  /\ last' = Record(op, provider, env, d)
  /\ issued' = issued \cup StoredAt(Stored(ProviderCfg(provider)[1], d, "oauth2_state"))
  /\ reqIssued' = reqIssued \cup Range(Stored(ProviderCfg(provider)[1], d, "req_token"))
  /\ nCalls' = nCalls + 1
  /\ tally' = Tally(op, ProviderCfg(provider)[1], d)
  /\ UNCHANGED <<now, ticks, csrfOn>>

\* GET /auth/PROVIDER
Initiate ==
  \E provider \in Names :
    \E env \in InitEnvs(ProviderCfg(provider)[1]) :
      Invoke("init", provider, env, SimpleAuth(session, provider, env, csrfOn, now))

\* GET /auth/PROVIDER/callback
Complete ==
  \E provider \in Names :
    \E env \in CallbackEnvs(ProviderCfg(provider)[1]) :
      Invoke("callback", provider, env, AuthCallback(session, provider, env, csrfOn, now))

\* time passes between two requests: as long as a CSRF token stays valid, or
\* one second longer.  Only the CSRF codec reads the clock, and only the age
\* of a token that exists matters.
Tick ==
  /\ csrfOn
  /\ issued # {}
  /\ ticks < MaxTicks
  /\ \E d \in {OAUTH2_CSRF_TOKEN_TIMEOUT, OAUTH2_CSRF_TOKEN_TIMEOUT + 1} : now' = now + d
  /\ ticks' = ticks + 1
  /\ UNCHANGED <<session, last, issued, reqIssued, nCalls, csrfOn, tally>>

Next == Initiate \/ Complete \/ Tick

Spec == Init /\ [][Next]_vars

(***************************************************************************)
(* The CSRF codec on its own: a token is generated, with or without an     *)
(* explicit _time, time passes, the token is validated against itself.     *)
(* Here `issued` holds the generated token and `last` the validation.      *)
(***************************************************************************)
\* the _time arguments tried: None (the clock is read) and explicit times
IssueTimes == { <<>>, <<0>>, <<1>>, <<OAUTH2_CSRF_TOKEN_TIMEOUT + 1>> }

InitCsrf ==
  /\ session = EmptySession
  /\ now \in {1, OAUTH2_CSRF_TOKEN_TIMEOUT, OAUTH2_CSRF_TOKEN_TIMEOUT + 1}
  /\ ticks = 0
  /\ csrfOn = TRUE
  /\ issued = {}
  /\ reqIssued = {}
  /\ nCalls = 0
  /\ tally = [inits |-> 0, exchanges |-> 0]
  /\ last = [op |-> "none", result |-> FALSE, clock |-> 0]

\* token = self._generate_csrf_token(_time)
CsrfGenerate ==
  /\ issued = {}
  /\ \E t \in IssueTimes, secret \in Secrets :
       issued' = {[token |-> GenerateCsrfToken(t, secret, now), given |-> t,
                   secret |-> secret, at |-> now]}
  /\ UNCHANGED <<session, now, ticks, last, reqIssued, nCalls, csrfOn, tally>>

\* self._validate_csrf_token(token, token)
CsrfValidate ==
  /\ issued # {}
  /\ nCalls < MaxCalls
  /\ \E x \in issued :
       last' = [op |-> "validate", clock |-> now,
                result |-> ValidateCsrfToken(x.token, x.token, now)]
  /\ nCalls' = nCalls + 1
  /\ UNCHANGED <<session, now, ticks, issued, reqIssued, csrfOn, tally>>

\* strings that are no token: empty, wrongly padded, outside ASCII, outside
\* the alphabet, and the encodings of "a1" (no delimiter), "a:x" (no number),
\* "a:" (no timestamp) and ":1" (no secret)
MalformedTokens ==
  { <<>>, <<24>>, <<NonAscii>>, <<B64Other>>, B64Encode(<<97, 49>>),
    B64Encode(<<97, OAUTH2_CSRF_DELIMITER, 120>>),
    B64Encode(<<97, OAUTH2_CSRF_DELIMITER>>), B64Encode(<<OAUTH2_CSRF_DELIMITER, 49>>) }

\* self._validate_csrf_token(_expected, _actual) as _oauth2_callback calls it
\* (lines 224-226): _expected is what the session holds, '' by default,
\* _actual the `state` parameter of the request, '' when absent; a string
\* that is no token is compared with itself, so that it reaches the decoder
CsrfValidateGiven ==
  /\ issued # {}
  /\ nCalls < MaxCalls
  /\ \E x \in issued :
       \E expected \in {x.token} \cup MalformedTokens,
          actual \in {x.token, <<B64Other>> \o x.token} \cup MalformedTokens :
         /\ expected \in {<<>>, x.token} \/ actual = expected
         /\ last' = [op |-> "validate_given", clock |-> now,
                     expected |-> expected, actual |-> actual,
                     raised |-> ValidateCsrfTokenRaises(expected, actual),
                     result |-> ValidateCsrfToken(expected, actual, now)]
  /\ nCalls' = nCalls + 1
  /\ UNCHANGED <<session, now, ticks, issued, reqIssued, csrfOn, tally>>

NextCsrf == CsrfGenerate \/ CsrfValidate \/ CsrfValidateGiven \/ Tick

SpecCsrf == InitCsrf /\ [][NextCsrf]_vars

(***************************************************************************)
(* Vocabulary of the properties.                                           *)
(***************************************************************************)
TerminalOutcomes == {"redirect", "provider_not_supported", "auth_error", "on_signin"}

IsOutcome(e) == e \in TerminalOutcomes

\* the terminal outcomes of the latest invocation, in order
Outcomes == SelectSeq(last.did.trace, IsOutcome)

\* the latest invocation made the call e
Called(e) == \E i \in 1..Len(last.did.trace) : last.did.trace[i] = e

Times(e) == Cardinality({i \in 1..Len(last.did.trace) : last.did.trace[i] = e})

Invoked(op, family) == last.op = op /\ last.family = family

\* C1 as stated: every invocation, whatever the collaborators and the host
\* callbacks do, ends in exactly one terminal outcome.
C1_ExactlyOneOutcome ==
  last.op # "none" => Len(Outcomes) = 1

\* C1, amended: every invocation ends in at least one terminal outcome, and
\* in exactly one when the host callback it reaches returns normally; when
\* on_signin, or a provider_not_supported called by a flow, raises, the
\* dispatcher's catch-all invokes auth_error after it, and those are the only
\* invocations with two outcomes; on_signin is an outcome of complete only.
C1_OneOutcomeUnlessItRaises ==
  last.op # "none" =>
    /\ Len(Outcomes) \in {1, 2}
    /\ last.env.hostFail \in {"none", "auth_error"} => Len(Outcomes) = 1
    /\ Len(Outcomes) = 2 =>
         /\ Outcomes[1] = last.env.hostFail
         /\ Outcomes[1] \in {"on_signin", "provider_not_supported"}
         /\ Outcomes[2] = "auth_error"
         /\ HasFlowMethod(last.family, last.op)
    /\ Called("on_signin") => last.op = "callback"
    /\ last.did.escaped =>
         last.env.hostFail = Outcomes[Len(Outcomes)]
         /\ Outcomes[Len(Outcomes)] \in {"auth_error", "provider_not_supported"}

C1_Witness ==
  /\ last.op = "callback"
  /\ last.env.hostFail = "on_signin"
  /\ Outcomes = <<"on_signin", "auth_error">>

\* C2: a provider name that is not registered, or whose family has no flow
\* operation, gets provider_not_supported exactly once from initiate and from
\* complete, and nothing else: no auth_error, no on_signin, no flow
\* operation, no redirect, no change of the session store.
C2_UnknownProviderNotSupported ==
  (/\ last.op # "none"
   /\ \/ last.provider \notin DOMAIN Registry
      \/ Registry[last.provider][1] \notin {"oauth2", "oauth1", "openid"})
  => /\ last.did.trace = <<"provider_not_supported">>
     /\ last.did.redirect = <<>>
     /\ last.did.signin = <<>>
     /\ session = last.pre

C2_Witness ==
  /\ last.op = "callback"
  /\ last.provider = "saml_idp"
  /\ last.did.trace = <<"provider_not_supported">>

\* C3: every OAuth1 callback leaves the session store without a request
\* token, whether it succeeds or fails; a callback that finds no request
\* token fails before any request to the provider, with auth_error, and with
\* the message "Couldn't find request token" whenever the consumer
\* credentials are the documented pair.
C3_RequestTokenSingleUse ==
  Invoked("callback", "oauth1") =>
    /\ session.req_token = <<>>
    /\ last.pre.req_token = <<>> =>
         /\ Outcomes = <<"auth_error">>
         /\ ~Called("token_exchange") /\ ~Called("profile_fetch")
         /\ Len(last.env.info) = 2 =>
              last.did.error_msg = "Couldn't find request token"

\* a second callback: a request token was stored, an earlier callback took it
C3_Witness ==
  /\ Invoked("callback", "oauth1")
  /\ last.pre.req_token = <<>>
  /\ \E rt \in reqIssued : last.env.verifier = VerifierFor(DictGet(rt, "oauth_token"))
  /\ last.did.error_msg = "Couldn't find request token"

\* the token the session held when the latest invocation began, '' if none
HeldState == IF last.pre.oauth2_state = <<>> THEN <<>> ELSE last.pre.oauth2_state[1]

\* the `state` parameter is not the token the session holds
StateMismatch == last.pre.oauth2_state = <<>> \/ last.env.state # HeldState

\* the held token was stored more than the timeout ago
HeldExpired ==
  \E x \in issued :
    x.token = HeldState /\ last.clock - x.at > OAUTH2_CSRF_TOKEN_TIMEOUT

\* C4: with CSRF protection on, an OAuth2 callback whose `state` is not the
\* token the session holds (or that finds no token), or whose token is
\* older than the timeout, ends in auth_error, without on_signin and without
\* a request to the token endpoint.
C4_CsrfMismatchOrExpiryFails ==
  (Invoked("callback", "oauth2") /\ csrfOn /\ (StateMismatch \/ HeldExpired))
  => Called("auth_error") /\ ~Called("on_signin") /\ ~Called("token_exchange")

\* the unmodified token comes back, too late
C4_Witness ==
  /\ Invoked("callback", "oauth2") /\ csrfOn
  /\ ~StateMismatch /\ HeldExpired
  /\ last.env.error = None /\ last.env.code = "c"
  /\ last.did.error_msg = "State parameter is not valid"

\* C5 as stated: with CSRF protection on, after every OAuth2 callback, the
\* `error` case included, the session store holds no CSRF token.
C5_TokenDestroyedByEveryCallback ==
  (Invoked("callback", "oauth2") /\ csrfOn) => session.oauth2_state = <<>>

\* C5, amended: with CSRF protection on, an OAuth2 callback that gets as far
\* as the CSRF check (its request has no `error` parameter and the consumer
\* credentials unpack) leaves the session store without a CSRF token, whether
\* it then succeeds or fails; a callback that fails before the check leaves
\* the session store as it was, token included.
C5_TokenDestroyedAtCsrfCheck ==
  (Invoked("callback", "oauth2") /\ csrfOn) =>
    IF Truthy(last.env.error) \/ Len(last.env.info) # 3
    THEN session = last.pre
    ELSE session.oauth2_state = <<>> /\ session.req_token = last.pre.req_token

C5_Witness ==
  /\ Invoked("callback", "oauth2") /\ csrfOn
  /\ Truthy(last.env.error)
  /\ last.pre.oauth2_state # <<>>
  /\ session.oauth2_state = last.pre.oauth2_state

\* C6: with CSRF protection on, an OAuth2 init that redirects leaves in the
\* session the state token of its own redirect, whatever token an earlier
\* init had stored; a callback that carries the token of an earlier init
\* while the session holds a different, later one ends in auth_error, without
\* on_signin and without a request to the token endpoint.
C6_SecondInitOverwritesState ==
  /\ (Invoked("init", "oauth2") /\ csrfOn /\ Called("redirect"))
     => session.oauth2_state = last.did.redirect[1].state
  /\ (/\ Invoked("callback", "oauth2") /\ csrfOn
      /\ last.pre.oauth2_state # <<>>
      /\ \E a \in issued : a.token = last.env.state /\ a.token # HeldState)
     => Called("auth_error") /\ ~Called("on_signin") /\ ~Called("token_exchange")

C6_Witness ==
  /\ Invoked("callback", "oauth2") /\ csrfOn
  /\ Cardinality(issued) = 2
  /\ \E a, b \in issued :
       /\ a.token # b.token
       /\ last.pre.oauth2_state = <<b.token>>
       /\ last.env.state = a.token
  /\ last.env.error = None /\ last.env.code = "c"
  /\ Outcomes = <<"auth_error">>

\* an OAuth1 callback of an earlier flow: the session holds the request token
\* of the latest init, the request carries the verifier of an earlier one
StaleOauth1Callback ==
  /\ Invoked("callback", "oauth1")
  /\ last.pre.req_token # <<>>
  /\ \E a \in reqIssued :
       /\ a # last.pre.req_token[1]
       /\ last.env.verifier = VerifierFor(DictGet(a, "oauth_token"))

\* what the provider answers makes the exchange and the profile fetch succeed
ProviderAccepts ==
  /\ last.env.resp.status # 0
  /\ last.env.resp.body.fmt = "qs"
  /\ DictHas(last.env.resp.body.fields, "oauth_token")
  /\ DictHas(last.env.resp.body.fields, "oauth_token_secret")
  /\ last.env.fetch = "ok"

\* C7 as stated: the callback of the earlier flow ends in auth_error and
\* never in on_signin, whatever the provider answers.
C7_StaleOauth1CallbackFails ==
  StaleOauth1Callback => Called("auth_error") /\ ~Called("on_signin")

\* C7, amended: an OAuth1 init that redirects leaves in the session the
\* request token of its own redirect; the callback of an earlier flow is not
\* rejected by the handler: it takes the later request token out of the
\* session, sends the access-token request with that token, its secret and
\* the earlier flow's verifier, and ends in on_signin exactly when the
\* provider answers that request and the profile request successfully, in
\* auth_error otherwise.
C7_StaleOauth1CallbackLeftToProvider ==
  /\ (Invoked("init", "oauth1") /\ Called("redirect"))
     => /\ session.req_token # <<>>
        /\ DictGet(session.req_token[1], "oauth_token") = last.did.redirect[1].oauth_token
        /\ session.req_token[1] = last.env.resp.body.fields
  /\ (StaleOauth1Callback /\ Len(last.env.info) = 2 /\ last.env.hostFail = "none")
     => /\ session.req_token = <<>>
        /\ Times("token_exchange") = 1
        /\ last.did.exch[1].oauth_token = DictGet(last.pre.req_token[1], "oauth_token")
        /\ last.did.exch[1].oauth_token_secret
             = DictGet(last.pre.req_token[1], "oauth_token_secret")
        /\ last.did.exch[1].verifier = last.env.verifier
        /\ IF ProviderAccepts THEN Outcomes = <<"on_signin">>
           ELSE Outcomes = <<"auth_error">>

C7_Witness ==
  /\ StaleOauth1Callback
  /\ last.env.hostFail = "none"
  /\ Outcomes = <<"on_signin">>

\* C8 as stated: an OAuth1 init with the key, the secret or the callback URL
\* missing (the others present) ends in provider_not_supported, never in
\* auth_error, and sends no request-token request.
C8_Oauth1InitConfigGap ==
  (/\ Invoked("init", "oauth1")
   /\ Len(last.env.info) = 2
   /\ \/ ~Truthy(last.env.info[1]) /\ Truthy(last.env.info[2])
            /\ Truthy(last.env.callback_url)
      \/ Truthy(last.env.info[1]) /\ ~Truthy(last.env.info[2])
            /\ Truthy(last.env.callback_url)
      \/ Truthy(last.env.info[1]) /\ Truthy(last.env.info[2])
            /\ ~Truthy(last.env.callback_url))
  => /\ Called("provider_not_supported")
     /\ ~Called("auth_error")
     /\ ~Called("request_token_fetch")

\* C9: an OAuth2 init with the key, the secret or the callback URL missing,
\* and an OpenID init with the identity URL or the callback URL missing,
\* call provider_not_supported exactly once, never auth_error, issue no
\* redirect, generate no CSRF token and leave the session store unchanged.
C9_InitConfigGapNotSupported ==
  (/\ last.op = "init"
   /\ last.env.hostFail # "provider_not_supported"
   /\ \/ /\ last.family = "oauth2"
         /\ Len(last.env.info) = 3
         /\ \/ ~Truthy(last.env.info[1]) \/ ~Truthy(last.env.info[2])
            \/ ~Truthy(last.env.callback_url)
      \/ /\ last.family = "openid"
         /\ ~Truthy(last.env.identity_url) \/ ~Truthy(last.env.callback_url))
  => /\ Outcomes = <<"provider_not_supported">>
     /\ last.did.redirect = <<>>
     /\ ~Called("generate_csrf_token") /\ ~Called("session_set")
     /\ session = last.pre

C9_Witness ==
  /\ Invoked("init", "oauth2") /\ csrfOn
  /\ last.env.info = <<"k", None, "sc">>
  /\ last.env.callback_url = "cb"
  /\ last.pre.oauth2_state # <<>>
  /\ Outcomes = <<"provider_not_supported">>

\* the issue time of the generated token: the _time given, else the clock
Generated == CHOOSE x \in issued : TRUE
IssueTime == IF Generated.given = <<>> THEN Generated.at ELSE Generated.given[1]

\* C10 as stated: a token generated for the issue time t validates against
\* itself at the time t' exactly when t' - t <= OAUTH2_CSRF_TOKEN_TIMEOUT,
\* for every t, every t' and every secret.
C10_ValidityWindow ==
  last.op = "validate" =>
    (last.result <=> last.clock - IssueTime <= OAUTH2_CSRF_TOKEN_TIMEOUT)

\* what holds of the code: the same, for every issue time but 0
C10_ValidityWindowNonzeroTime ==
  (last.op = "validate" /\ Generated.given # <<0>>) =>
    (last.result <=> last.clock - IssueTime <= OAUTH2_CSRF_TOKEN_TIMEOUT)

\* C11: _validate_csrf_token never raises: for every pair of the token the
\* session holds (none, the generated one, or a string that is no token) and
\* the `state` parameter of the request (absent, the token, or a string that
\* is no token), it returns a boolean; it returns FALSE whenever either is
\* malformed or the two differ, and TRUE only for the generated token
\* compared with itself.
C11_ValidateNeverRaises ==
  last.op = "validate_given" =>
    /\ last.raised = ""
    /\ last.result \in BOOLEAN
    /\ (\/ last.expected \in MalformedTokens
        \/ last.actual \in MalformedTokens
        \/ last.expected # last.actual) => last.result = FALSE
    /\ last.result => last.expected = Generated.token /\ last.actual = Generated.token

\* no token in the session, no `state` in the request: the two are equal
\* and the empty string goes through the decoder
C11_Witness ==
  /\ last.op = "validate_given"
  /\ last.expected = <<>> /\ last.actual = <<>>
  /\ last.raised = "" /\ last.result = FALSE

\* C12: an OAuth1 callback sends a request to the provider (the access-token
\* exchange, the profile fetch) only if the session held a request token and
\* the request carried a non-empty oauth_verifier; when either is missing it
\* makes no request and complete ends in auth_error alone.
C12_Oauth1CallbackNeedsTokenAndVerifier ==
  Invoked("callback", "oauth1") =>
    /\ (Called("token_exchange") \/ Called("profile_fetch"))
         => last.pre.req_token # <<>> /\ Truthy(last.env.verifier)
    /\ (last.pre.req_token = <<>> \/ ~Truthy(last.env.verifier))
         => /\ Outcomes = <<"auth_error">>
            /\ ~Called("token_exchange") /\ ~Called("profile_fetch")

\* a request token is there, the verifier is not
C12_Witness ==
  /\ Invoked("callback", "oauth1")
  /\ last.pre.req_token # <<>>
  /\ ~Truthy(last.env.verifier)
  /\ last.did.error_msg = "No OAuth verifier was provided"
  /\ Outcomes = <<"auth_error">>

\* C13: an OAuth2 callback whose request carries a non-empty `error`
\* parameter makes neither the token exchange nor the profile fetch, whatever
\* `code` and `state` are, and complete ends in auth_error, never on_signin.
C13_ErrorParamNoExchange ==
  (Invoked("callback", "oauth2") /\ Truthy(last.env.error)) =>
    /\ ~Called("token_exchange") /\ ~Called("profile_fetch")
    /\ Outcomes = <<"auth_error">>
    /\ last.did.signin = <<>>
    /\ Len(last.env.info) = 3 => last.did.error_msg = last.env.error

\* the request has a code and the state the session holds, and an error
C13_Witness ==
  /\ Invoked("callback", "oauth2") /\ csrfOn
  /\ Truthy(last.env.error)
  /\ last.env.code = "c"
  /\ ~StateMismatch /\ ~HeldExpired
  /\ Outcomes = <<"auth_error">>

\* C14 as stated: when the token endpoint answers the access-token exchange
\* of an OAuth2 or OAuth1 callback with a status other than 200, the callback
\* fails: complete ends in auth_error and not in on_signin, the profile is
\* not fetched and the exchange is made once.
C14_Non200ExchangeFails ==
  (/\ last.op = "callback" /\ last.family \in {"oauth2", "oauth1"}
   /\ Called("token_exchange")
   /\ last.env.resp.status \notin {0, 200})
  => /\ Outcomes = <<"auth_error">>
     /\ ~Called("profile_fetch")
     /\ Times("token_exchange") = 1

\* the latest invocation made the call a, and later the call b
CalledBefore(a, b) ==
  \E i, j \in 1..Len(last.did.trace) :
    i < j /\ last.did.trace[i] = a /\ last.did.trace[j] = b

\* C15: an OAuth2 init that redirects sends response_type=code, client_id,
\* redirect_uri, and scope exactly when one was supplied.  With CSRF
\* protection on it generates one token, stores it under oauth2_state before
\* it redirects, and the `state` of the redirect is the stored value; with
\* CSRF protection off the redirect has no `state` and the session store is
\* unchanged.
C15_Oauth2InitRedirect ==
  (Invoked("init", "oauth2") /\ Called("redirect")) =>
    LET params == last.did.redirect[1]
        scope == last.env.info[3]
    IN /\ params.response_type = "code"
       /\ params.client_id = last.env.info[1] /\ Truthy(params.client_id)
       /\ params.redirect_uri = last.env.callback_url /\ Truthy(params.redirect_uri)
       /\ params.scope = (IF Truthy(scope) THEN <<scope>> ELSE <<>>)
       /\ session.req_token = last.pre.req_token
       /\ IF csrfOn
          THEN /\ Times("generate_csrf_token") = 1
               /\ params.state = <<GenerateCsrfToken(<<>>, last.env.secret, last.clock)>>
               /\ session.oauth2_state = params.state
               /\ Times("session_set") = 1
               /\ CalledBefore("session_set", "redirect")
          ELSE /\ params.state = <<>>
               /\ session = last.pre
               /\ ~Called("generate_csrf_token") /\ ~Called("session_set")

\* CSRF protection on, no scope, a token of an earlier init in the session
C15_Witness ==
  /\ Invoked("init", "oauth2") /\ Called("redirect") /\ csrfOn
  /\ last.pre.oauth2_state # <<>>
  /\ last.did.redirect[1].state = session.oauth2_state
  /\ last.did.redirect[1].scope = <<>>

\* C16: an OAuth1 init writes the session only when it succeeds.  If the
\* request-token endpoint answers with a status other than 200, or the
\* decoded answer has no oauth_token, it ends in auth_error, issues no
\* redirect and leaves the session store as it was, a request token of an
\* earlier init included; an init that does not redirect never changes the
\* store; one that redirects leaves exactly the decoded request token under
\* req_token, and the redirect carries that token's oauth_token.
C16_Oauth1InitWritesOnSuccess ==
  Invoked("init", "oauth1") =>
    LET decoded == ParseTokenResponse(last.provider, last.env.resp.body).val
    IN /\ (/\ Called("request_token_fetch")
           /\ \/ last.env.resp.status # 200
              \/ ~Truthy(DictGet(decoded, "oauth_token")))
          => /\ Outcomes = <<"auth_error">>
             /\ last.did.redirect = <<>>
             /\ session = last.pre
       /\ ~Called("redirect") => session = last.pre
       /\ Called("redirect")
          => /\ last.env.resp.status = 200
             /\ session.req_token = <<decoded>>
             /\ session.oauth2_state = last.pre.oauth2_state
             /\ last.did.redirect[1].oauth_token = DictGet(decoded, "oauth_token")
             /\ Truthy(last.did.redirect[1].oauth_token)

\* a second init is refused by the endpoint: the first one's token stays
C16_Witness ==
  /\ Invoked("init", "oauth1")
  /\ last.env.resp.status = 500
  /\ last.pre.req_token # <<>>
  /\ session.req_token = last.pre.req_token
  /\ Outcomes = <<"auth_error">>

\* the position of the call e in the latest invocation, 0 if it was not made
IndexOf(e) ==
  IF Called(e) THEN CHOOSE i \in 1..Len(last.did.trace) : last.did.trace[i] = e ELSE 0

\* complete on a provider whose family has a callback operation: on_signin
\* is called at most once, only when the operation returned a pair, after
\* every call the operation made, with that pair and the provider name; when
\* the operation failed, on_signin is not called and auth_error is, with a
\* message
SigninFollowsCallback ==
  /\ Times("on_signin") <= 1
  /\ Called("on_signin") <=> last.did.ret # <<>>
  /\ Called("on_signin") =>
       /\ last.did.signin = <<[user_data |-> last.did.ret[1][1],
                               auth_info |-> last.did.ret[1][2],
                               provider |-> last.provider]>>
       /\ \A i \in 1..Len(last.did.trace) :
            i > IndexOf("on_signin") => last.did.trace[i] = "auth_error"
  /\ last.did.ret = <<>> =>
       /\ last.did.signin = <<>>
       /\ Outcomes = <<"auth_error">>
       /\ last.did.error_msg # ""

\* C17 as stated: in complete, on_signin is called only after the callback
\* operation returned a pair, at most once, with that pair and the provider
\* name; when the operation fails, on_signin is not called, auth_error is
\* called with the failure's message, and no exception leaves the dispatcher.
C17_SigninOnlyAfterCallback ==
  (last.op = "callback" /\ HasFlowMethod(last.family, "callback")) =>
    /\ SigninFollowsCallback
    /\ last.did.ret = <<>> => ~last.did.escaped

\* C17, amended: the same, except that the exception which auth_error itself
\* raises leaves the dispatcher; no other exception does.
C17_SigninOnlyAfterCallbackUnlessAuthErrorRaises ==
  (last.op = "callback" /\ HasFlowMethod(last.family, "callback")) =>
    /\ SigninFollowsCallback
    /\ last.did.escaped <=> (Called("auth_error") /\ last.env.hostFail = "auth_error")

\* the callback operation fails and the host's auth_error raises
C17_Witness ==
  /\ last.op = "callback" /\ HasFlowMethod(last.family, "callback")
  /\ last.did.ret = <<>>
  /\ Outcomes = <<"auth_error">>
  /\ last.env.hostFail = "auth_error"
  /\ last.did.escaped

\* C18: with CSRF protection on, in every sequence of inits and callbacks on
\* one session, an OAuth2 callback reaches the token exchange only by taking
\* out of the session a token that an init stored and no callback has taken:
\* the callbacks that reached the exchange, plus one if the session still
\* holds a token, never outnumber the inits that redirected; such a callback
\* found a token, its `state` was that token, and it leaves none; a callback
\* that finds no token fails before the exchange, whatever its `state`, the
\* absent one and one accepted before included.
C18_EachExchangeConsumesAToken ==
  csrfOn =>
    /\ tally.exchanges + (IF session.oauth2_state # <<>> THEN 1 ELSE 0) <= tally.inits
    /\ (Invoked("callback", "oauth2") /\ Called("token_exchange")) =>
         /\ last.pre.oauth2_state # <<>>
         /\ last.env.state = HeldState
         /\ \E x \in issued : x.token = HeldState
         /\ session.oauth2_state = <<>>
    /\ (Invoked("callback", "oauth2") /\ last.pre.oauth2_state = <<>>) =>
         /\ ~Called("token_exchange")
         /\ Outcomes = <<"auth_error">>

\* a replay: a callback was accepted, the same `state` comes again
C18_Witness ==
  /\ Invoked("callback", "oauth2") /\ csrfOn
  /\ tally.exchanges = 1 /\ tally.inits = 1
  /\ last.pre.oauth2_state = <<>>
  /\ \E x \in issued : x.token = last.env.state
  /\ last.env.code = "c" /\ last.env.error = None
  /\ ~Called("token_exchange")
  /\ Outcomes = <<"auth_error">>

\* C19 as stated: an OAuth2 callback sends the token-exchange POST only when
\* its request carries a non-empty `code`; with neither `code` nor `error`
\* it fails without a request to the token endpoint.
C19_ExchangeNeedsCode ==
  Invoked("callback", "oauth2") =>
    /\ Called("token_exchange") => Truthy(last.env.code)
    /\ (~Truthy(last.env.code) /\ ~Truthy(last.env.error)) =>
         ~Called("token_exchange") /\ Outcomes = <<"auth_error">>

\* the calls an OpenID operation has no business making: the consumer
\* credentials provider, the session store, the token and profile endpoints
NotForOpenid ==
  {"consumer_info", "session_pop", "session_set", "generate_csrf_token",
   "request_token_fetch", "token_exchange", "profile_fetch"}

\* C20: neither OpenID init nor OpenID callback asks for consumer
\* credentials, reads or writes the session store, or makes a request to a
\* token or profile endpoint.  The callback fails (auth_error, no on_signin)
\* exactly when the identity collaborator reports no current user or a user
\* without a federated identity; otherwise it returns the pair made of that
\* user's federated identity, nickname and email, and of the federated
\* provider, and that pair goes to on_signin.
C20_OpenidTouchesOnlyIdentity ==
  (last.op # "none" /\ last.family = "openid") =>
    /\ \A e \in NotForOpenid : ~Called(e)
    /\ session = last.pre
    /\ last.did.exch = <<>>
    /\ last.op = "callback" =>
         IF \/ last.env.user = "none"
            \/ ~Truthy(UserAttrs[last.env.user].federated_identity)
         THEN /\ Outcomes = <<"auth_error">>
              /\ last.did.ret = <<>> /\ last.did.signin = <<>>
              /\ last.did.trace = <<"get_current_user", "auth_error">>
         ELSE LET user == UserAttrs[last.env.user]
              IN /\ last.did.ret =
                      << <<[id |-> user.federated_identity, nickname |-> user.nickname,
                            email |-> user.email],
                           {<<"provider", user.federated_provider>>}>> >>
                 /\ Outcomes[1] = "on_signin"
                 /\ last.did.signin[1].user_data = last.did.ret[1][1]
                 /\ last.did.signin[1].auth_info = last.did.ret[1][2]
                 /\ last.env.hostFail = "none" =>
                      last.did.trace = <<"get_current_user", "on_signin">>

\* a user is signed in, without a federated identity, while the session
\* holds the tokens of other flows
C20_Witness ==
  /\ Invoked("callback", "openid")
  /\ last.env.user = "nofed"
  /\ last.pre # EmptySession
  /\ session = last.pre
  /\ Outcomes = <<"auth_error">>

====
